---------------------------- MODULE Spec2Model ----------------------------
(***************************************************************************)
(* A model of the slider of react-native-awesome-slider: the gesture       *)
(* handlers (pan start / update / end, tap), the shared values they write, *)
(* the animated reactions that follow them, the derived thumb style and    *)
(* the queue of callbacks handed to the JS thread by runOnJS.              *)
(*                                                                         *)
(* Two source files are modelled, selected by cfg.variant:                 *)
(*   "plain" : src/unnamed/part_000 (snapToInteger, no step)               *)
(*   "step"  : src/src/slide.tsx    (step marks, always rounds on release) *)
(*                                                                         *)
(* JavaScript numbers are modelled as exact rationals <<n, d>> in lowest   *)
(* terms with d > 0, extended with the three non-finite values a division  *)
(* by zero produces: <<1, 0>> = +Infinity, <<-1, 0>> = -Infinity and       *)
(* <<0, 0>> = NaN.  Floating point rounding error and the sign of zero     *)
(* are not modelled.  Presentation state (mark colours, bubble text,       *)
(* colours, scale animation) is not modelled.                              *)
(***************************************************************************)
EXTENDS Integers, Sequences, FiniteSets, TLC

-----------------------------------------------------------------------------
(* JavaScript number arithmetic *)

Abs(n) == IF n < 0 THEN -n ELSE n

Sign(n) == IF n > 0 THEN 1 ELSE IF n < 0 THEN -1 ELSE 0

RECURSIVE GCD(_, _)
GCD(a, b) == IF b = 0 THEN a ELSE GCD(b, a % b)

\* the number n/d; n/0 is +Infinity, -Infinity or NaN by the sign of n
Norm(n, d) ==
    IF d = 0 THEN <<Sign(n), 0>>
    ELSE IF d = 1 THEN <<n, 1>>
    ELSE LET g == GCD(Abs(n), Abs(d))
             s == IF d < 0 THEN -1 ELSE 1
         IN  <<(s * n) \div g, (s * d) \div g>>

Num(n) == <<n, 1>>

NaN == <<0, 0>>

PosInf == <<1, 0>>

NegInf == <<-1, 0>>

IsNaN(a) == a = NaN

IsFinite(a) == a[2] # 0

Neg(a) == <<-a[1], a[2]>>

\* a + b
Add(a, b) ==
    IF IsNaN(a) \/ IsNaN(b) THEN NaN
    ELSE IF ~IsFinite(a) THEN (IF ~IsFinite(b) /\ b # a THEN NaN ELSE a)
    ELSE IF ~IsFinite(b) THEN b
    ELSE Norm(a[1] * b[2] + b[1] * a[2], a[2] * b[2])

\* a - b
Sub(a, b) == Add(a, Neg(b))

\* a * b  (0 * Infinity is NaN)
Mul(a, b) ==
    IF IsNaN(a) \/ IsNaN(b) THEN NaN
    ELSE Norm(a[1] * b[1], a[2] * b[2])

\* a / b  (x / 0 is +-Infinity, 0 / 0 is NaN, x / Infinity is 0)
Div(a, b) ==
    IF IsNaN(a) \/ IsNaN(b) THEN NaN
    ELSE Mul(a, Norm(b[2], b[1]))

\* a < b  (false when either is NaN)
Less(a, b) ==
    /\ ~IsNaN(a)
    /\ ~IsNaN(b)
    /\ a # b
    /\ IF ~IsFinite(a) THEN a = NegInf
       ELSE IF ~IsFinite(b) THEN b = PosInf
       ELSE a[1] * b[2] < b[1] * a[2]

\* a <= b  (false when either is NaN)
Leq(a, b) == ~IsNaN(a) /\ ~IsNaN(b) /\ (a = b \/ Less(a, b))

\* a >= b
Geq(a, b) == Leq(b, a)

\* Math.max(a, b)
MathMax(a, b) ==
    IF IsNaN(a) \/ IsNaN(b) THEN NaN ELSE IF Less(a, b) THEN b ELSE a

\* Math.min(a, b)
MathMin(a, b) ==
    IF IsNaN(a) \/ IsNaN(b) THEN NaN ELSE IF Less(b, a) THEN b ELSE a

\* Math.round(a): the nearest integer, halves rounded up
MathRound(a) ==
    IF ~IsFinite(a) THEN a
    ELSE Num((2 * a[1] + a[2]) \div (2 * a[2]))

\* a % 1 === 0
IsWhole(a) == IsFinite(a) /\ a[2] = 1

\* clamp(value, lowerBound, upperBound) of ./utils
clamp(value, lowerBound, upperBound) ==
    MathMin(MathMax(lowerBound, value), upperBound)

-----------------------------------------------------------------------------
(* Bounds of the model *)

\* pan updates per gesture
MaxUpdates == 2

\* callbacks that may wait on the JS thread when a gesture event arrives
MaxPending == 1

\* how far outside the track [0, width] the recognizer reports x
Overshoot == 1

\* largest magnitude of minimumValue, maximumValue and cache where every
\* pair of them is drawn
ValueBound == 2

-----------------------------------------------------------------------------
(* Program constants *)

PanDirectionSTART == 0

PanDirectionLEFT == 1

PanDirectionRIGHT == 2

PanDirectionEND == 3

-----------------------------------------------------------------------------
(* The component's props.  step = 0 stands for an undefined step. *)

Props(variants, ranges, steps, flags) ==
    { [ variant |-> v, minimumValue |-> r[1], maximumValue |-> r[2],
        thumbWidth |-> 1, layoutWidth |-> 4, markWidth |-> 1, step |-> st,
        snapToInteger |-> f.snapToInteger, disable |-> f.disable,
        disableTapEvent |-> f.disableTapEvent,
        disableTrackFollow |-> f.disableTrackFollow,
        hapticMode |-> f.hapticMode,
        hasIsScrubbing |-> f.hasIsScrubbing,
        hasPanDirectionValue |-> f.hasPanDirectionValue,
        onHapticFeedback |-> f.onHapticFeedback,
        onSlidingStart |-> TRUE, onSlidingComplete |-> TRUE, onTap |-> TRUE ] :
      v \in variants, r \in ranges, st \in steps, f \in flags }

Defaults ==
    [ snapToInteger |-> FALSE, disable |-> FALSE, disableTapEvent |-> FALSE,
      disableTrackFollow |-> FALSE, hapticMode |-> "none",
      hasIsScrubbing |-> FALSE, hasPanDirectionValue |-> FALSE,
      onHapticFeedback |-> FALSE ]

VARIABLES
    cfg,                \* the props, fixed for the life of the component
    width,              \* shared value: the laid out track width (0 before layout)
    progress,           \* shared value owned by the application
    cache,              \* shared value owned by the application (optional prop)
    thumbValue,         \* shared value: the thumb's x offset
    bubbleOpacity,      \* shared value: the target of the bubble's spring
    markLeftArr,        \* shared value: left offsets of the step marks
    thumbIndex,         \* shared value: index of the current step mark
    isTriggedHaptic,    \* shared value: haptic already fired at this edge
    prevX,              \* shared value: x of the previous pan update
    isScrubbing,        \* shared value owned by the application (optional prop)
    panDirectionValue,  \* shared value owned by the application (optional prop)
    panState,           \* gesture recognizer: "idle" or "active" (a pan is going on)
    updates,            \* gesture recognizer: updates delivered in the current pan
    wasAtEdge,          \* history: the previous onActiveSlider call was at an edge
    onTrack,            \* history: every x of the latest gesture was within [0, width]
    fingerX,            \* history: x of the previous event of the current pan
    jsQueue,            \* runOnJS: calls scheduled on the JS thread, oldest first
    jsNext              \* JS thread: position expected next in the pan callback pattern

vars == <<cfg, width, progress, cache, thumbValue, bubbleOpacity, markLeftArr,
          thumbIndex, isTriggedHaptic, prevX, isScrubbing, panDirectionValue,
          panState, updates, wasAtEdge, onTrack, fingerX, jsQueue, jsNext>>

\* the x positions the gesture recognizer reports
X == (0 - Overshoot) .. (cfg.layoutWidth + Overshoot)

minimumValue == Num(cfg.minimumValue)

maximumValue == Num(cfg.maximumValue)

thumbWidth == Num(cfg.thumbWidth)

\* width.value - thumbWidth
TrackLength(w) == Sub(Num(w), thumbWidth)

sliderTotalValue == Add(maximumValue, minimumValue)

progressToValue(value) ==
    IF sliderTotalValue = Num(0) THEN Num(0)
    ELSE IF cfg.variant = "plain"
         THEN Mul(Div(value, sliderTotalValue), TrackLength(width))
         ELSE Mul(Div(value, sliderTotalValue), Num(width))

\* the translateX of the thumb's animated style
animatedThumbStyle ==
    IF cfg.disableTrackFollow
    THEN clamp(thumbValue, Num(0), TrackLength(width))
    ELSE IF cfg.variant = "plain"
         THEN clamp(progressToValue(progress), Num(0), TrackLength(width))
         ELSE clamp(Sub(progressToValue(progress), thumbWidth),
                    Div(Neg(thumbWidth), Num(2)), TrackLength(width))

\* the width of the cache overlay's animated style; no cache prop and a
\* cache of 0 or NaN are all falsy
animatedCacheXStyle ==
    IF cache # Num(0) /\ ~IsNaN(cache)
    THEN Mul(Div(cache, sliderTotalValue), Num(width))
    ELSE Num(0)

\* shareValueToSeconds() read when thumbValue.value is tv
shareValueToSeconds(tv) ==
    LET sliderPercent ==
            clamp(Add(Div(tv, TrackLength(width)),
                      Div(minimumValue, sliderTotalValue)),
                  Num(0), Num(1))
    IN  clamp(Mul(sliderPercent, sliderTotalValue), minimumValue, maximumValue)

xToProgress(x) ==
    IF cfg.variant = "step" /\ cfg.step # 0 /\ Len(markLeftArr) >= cfg.step
    THEN markLeftArr[thumbIndex + 1]
    ELSE Mul(Div(Num(x), TrackLength(width)), sliderTotalValue)

\* x <= 0 || x >= width.value - thumbWidth
AtEdge(x) == Leq(Num(x), Num(0)) \/ Geq(Num(x), TrackLength(width))

\* mutant of HapticFires: isTriggedHaptic is not consulted
HapticFiresAtEveryEdgeEvent(x) ==
    /\ AtEdge(x)
    /\ cfg.hapticMode = "both"
    /\ cfg.onHapticFeedback

\* onActiveSlider schedules onHapticFeedback
HapticFires(x) ==
    /\ AtEdge(x)
    /\ ~isTriggedHaptic
    /\ cfg.hapticMode = "both"
    /\ cfg.onHapticFeedback

\* mutant of Disabled: the pan handlers do not return early
DisabledIgnored == FALSE

\* the early return of the pan handlers
Disabled == cfg.disable

\* mutant of TapDisabled: disableTapEvent is not consulted
TapDisabledByDisableOnly == cfg.disable

\* the early return of the tap handler
TapDisabled == cfg.disable \/ cfg.disableTapEvent

\* x lies on the track
InTrack(x) == x \in 0 .. width

\* a release rounds progress value p
ReleaseRounds(p) ==
    IF cfg.variant = "plain" THEN cfg.snapToInteger /\ ~IsWhole(p)
    ELSE ~IsWhole(p)

-----------------------------------------------------------------------------
(* runOnJS *)

Call(cb, arg, src, k) == [cb |-> cb, arg |-> arg, src |-> src, k |-> k]

-----------------------------------------------------------------------------
(* The animated reactions, which run after a handler has written the shared  *)
(* values they read.                                                         *)

\* fraction i / step
StepFrac(i) == Div(Num(i), Num(cfg.step))

MarkLeftArrFor(w) ==
    IF cfg.variant = "step" /\ cfg.step # 0
    THEN [ j \in 1 .. (cfg.step + 1) |->
             Sub(Sub(MathRound(Mul(Num(w), StepFrac(j - 1))),
                     Mul(StepFrac(j - 1), Num(cfg.markWidth))),
                 MathRound(Div(thumbWidth, Num(3)))) ]
    ELSE << >>

\* marksLeft.findIndex(value => value >= currentWidth), clamped to [0, step]
ThumbIndexFor(p, w) ==
    LET marksLeft == [ j \in 1 .. (cfg.step + 1) |->
                         MathRound(Mul(Num(w), StepFrac(j - 1))) ]
        currentWidth ==
            MathRound(Mul(Div(Sub(p, minimumValue),
                               Sub(maximumValue, minimumValue)), Num(w)))
        hits == { j \in 1 .. (cfg.step + 1) : Geq(marksLeft[j], currentWidth) }
        currentIndex ==
            IF hits = {} THEN 0 - 1
            ELSE (CHOOSE j \in hits : \A h \in hits : j <= h) - 1
    IN  clamp(Num(currentIndex), Num(0), Num(cfg.step))[1]

ThumbValueFor(p, w) ==
    clamp(Mul(Div(p, Add(minimumValue, maximumValue)), Num(w)),
          Num(0), TrackLength(w))

Scrubbing(s) == cfg.hasIsScrubbing /\ s

\* A reaction runs when a shared value its first function reads has been
\* written: progress, width or isScrubbing for thumbIndex and thumbValue.
\* wrote says whether the step wrote one of them.

\* thumbIndex after the reaction, for progress p, isScrubbing s and width w
ReactThumbIndex(p, s, w, wrote) ==
    IF wrote /\ cfg.variant = "step" /\ ~Scrubbing(s) /\ cfg.step # 0
    THEN ThumbIndexFor(p, w)
    ELSE thumbIndex

\* thumbValue after the reaction, tv being what the handler left in it
ReactThumbValue(tv, p, s, w, wrote) ==
    IF wrote /\ cfg.variant = "step" /\ ~Scrubbing(s) /\ cfg.step = 0
    THEN ThumbValueFor(p, w)
    ELSE tv

\* the markLeftArr reaction reads width alone of the shared values, so it
\* writes a new array only when width has changed
Reactions(tv, p, s, w, wrote) ==
    /\ markLeftArr' = (IF w = width THEN markLeftArr ELSE MarkLeftArrFor(w))
    /\ thumbIndex' = ReactThumbIndex(p, s, w, wrote)
    /\ thumbValue' = ReactThumbValue(tv, p, s, w, wrote)

-----------------------------------------------------------------------------
(* Configurations and the initial state *)

\* <<minimumValue, maximumValue>>
Ranges == {<<0, 2>>, <<1, 3>>}

\* one property away from the defaults at a time; the disabled slider has
\* every optional shared value and the haptic callback supplied, so that a
\* handler that went past its early return would show
Flags ==
    { [ Defaults EXCEPT !.snapToInteger = TRUE ],
      [ Defaults EXCEPT !.disableTrackFollow = TRUE ],
      [ Defaults EXCEPT !.hapticMode = "both", !.onHapticFeedback = TRUE ],
      [ Defaults EXCEPT !.hasIsScrubbing = TRUE ],
      [ Defaults EXCEPT !.disable = TRUE, !.hasIsScrubbing = TRUE,
                        !.hasPanDirectionValue = TRUE,
                        !.hapticMode = "both", !.onHapticFeedback = TRUE ],
      [ Defaults EXCEPT !.disableTapEvent = TRUE ] }

\* slide.tsx has no snapToInteger
StepFlags == { f \in Flags \cup {Defaults} : ~f.snapToInteger }

\* the properties the step marks interact with: the reactions that keep
\* thumbIndex read isScrubbing, and xToProgress feeds progress only when the
\* track follows the thumb
MarkFlags ==
    { f \in StepFlags :
        f.hapticMode = "none" /\ ~f.disable /\ ~f.disableTapEvent }

Configs ==
    Props({"plain"}, Ranges, {0}, Flags \cup {Defaults})
        \cup Props({"step"}, Ranges, {0}, StepFlags)
        \cup Props({"step"}, Ranges, {2}, MarkFlags)

\* a slider that reports the swipe direction (and its scrubbing state)
DirectionFlags ==
    { [ Defaults EXCEPT !.hasPanDirectionValue = TRUE,
                        !.hasIsScrubbing = TRUE ] }

DirectionConfigs == Props({"plain", "step"}, {<<0, 2>>}, {0}, DirectionFlags)

\* every pair minimumValue <= maximumValue within the value bound
AllRanges ==
    { r \in ((0 - ValueBound) .. ValueBound) \X ((0 - ValueBound) .. ValueBound) :
        r[1] <= r[2] }

CacheConfigs == Props({"plain", "step"}, AllRanges, {0}, {Defaults})

\* the configurations with the track as wide as the thumb
ThumbWide(configs) ==
    { [ c EXCEPT !.layoutWidth = c.thumbWidth ] : c \in configs }

\* the slider as it is by default and with isScrubbing supplied
PlainFlags == { Defaults, [ Defaults EXCEPT !.hasIsScrubbing = TRUE ] }

\* minimumValue = maximumValue, minimumValue + maximumValue = 0, and a
\* track as wide as the thumb
DegenerateConfigs ==
    Props({"plain", "step"}, {<<0, 0>>, <<2, 2>>, <<-1, 1>>}, {0}, PlainFlags)
        \cup ThumbWide(Props({"plain", "step"}, {<<0, 2>>}, {0}, PlainFlags))

InitWith(configs) ==
    /\ cfg \in configs
    /\ width = 0
    /\ progress \in { Num(v) : v \in cfg.minimumValue .. cfg.maximumValue }
    /\ cache = Num(0)
    /\ bubbleOpacity = 0
    /\ isTriggedHaptic = FALSE
    /\ prevX = 0
    /\ isScrubbing = FALSE
    /\ panDirectionValue = PanDirectionSTART
    /\ panState = "idle"
    /\ updates = 0
    /\ wasAtEdge = FALSE
    /\ onTrack = TRUE
    /\ fingerX = 0
    /\ jsQueue = << >>
    /\ jsNext = 0
    /\ markLeftArr = MarkLeftArrFor(0)
    /\ thumbIndex =
         IF cfg.variant = "step" /\ cfg.step # 0
         THEN ThumbIndexFor(progress, 0) ELSE 0
    /\ thumbValue =
         IF cfg.variant = "step" /\ cfg.step = 0
         THEN ThumbValueFor(progress, 0) ELSE Num(0)

Init == InitWith(Configs)

-----------------------------------------------------------------------------
(* Actions *)

\* the gesture detector delivers events once the view has been laid out and
\* the JS thread is at most MaxPending calls behind
Ready == width # 0 /\ Len(jsQueue) <= MaxPending

onLayout ==
    /\ width = 0
    /\ width' = cfg.layoutWidth
    /\ Reactions(thumbValue, progress, isScrubbing, cfg.layoutWidth, TRUE)
    /\ UNCHANGED <<cfg, cache, progress, bubbleOpacity, isTriggedHaptic, prevX,
                   isScrubbing, panDirectionValue, panState, updates,
                   wasAtEdge, onTrack, fingerX, jsQueue, jsNext>>

\* what onActiveSlider(x) leaves: the shared values it writes and the calls
\* it schedules, for the gesture src at position k of its callback pattern
onActiveSlider(x, src, k) ==
    LET tv == clamp(Num(x), Num(0), TrackLength(width))
    IN  [ isScrubbing |-> IF cfg.hasIsScrubbing THEN TRUE ELSE isScrubbing,
          thumbValue |-> tv,
          progress |-> IF ~cfg.disableTrackFollow THEN xToProgress(x)
                       ELSE progress,
          isTriggedHaptic |-> IF AtEdge(x)
                              THEN (HapticFires(x) \/ isTriggedHaptic)
                              ELSE FALSE,
          calls |-> (IF HapticFires(x)
                     THEN <<Call("onHapticFeedback", Num(0), src, k)>>
                     ELSE << >>)
                    \o <<Call("onValueChange", shareValueToSeconds(tv), src, k)>> ]

\* mutant of Release: the rounding branch does not report completion
ReleaseSilentWhenRounding(p, tv, src, k) ==
    IF ReleaseRounds(p)
    THEN [ progress |-> MathRound(p), calls |-> << >> ]
    ELSE [ progress |-> p,
           calls |-> IF cfg.onSlidingComplete
                     THEN <<Call("onSlidingComplete", shareValueToSeconds(tv),
                                 src, k)>>
                     ELSE << >> ]

\* what the end of a gesture leaves in progress and schedules, p being
\* progress.value and tv thumbValue.value when the release is handled
Release(p, tv, src, k) ==
    IF ReleaseRounds(p)
    THEN [ progress |-> MathRound(p),
           calls |-> IF cfg.onSlidingComplete
                     THEN <<Call("onSlidingComplete", MathRound(p), src, k)>>
                     ELSE << >> ]
    ELSE [ progress |-> p,
           calls |-> IF cfg.onSlidingComplete
                     THEN <<Call("onSlidingComplete", shareValueToSeconds(tv),
                                 src, k)>>
                     ELSE << >> ]

\* where a pan may begin; the position is recorded for the sliders that
\* report the swipe direction and is 0 for the others, whose handlers
\* compare no two positions
StartX == IF cfg.hasPanDirectionValue THEN X ELSE {0}

PanStart ==
    /\ Ready
    /\ panState = "idle"
    /\ panState' = "active"
    /\ updates' = 0
    /\ onTrack' = TRUE
    /\ fingerX' \in StartX
    /\ IF Disabled
       THEN UNCHANGED <<isScrubbing, panDirectionValue, prevX, jsQueue,
                        markLeftArr, thumbIndex, thumbValue>>
       ELSE /\ isScrubbing' = (IF cfg.hasIsScrubbing THEN TRUE ELSE isScrubbing)
            /\ panDirectionValue' = (IF cfg.hasPanDirectionValue
                                     THEN PanDirectionSTART
                                     ELSE panDirectionValue)
            /\ prevX' = (IF cfg.hasPanDirectionValue THEN 0 ELSE prevX)
            /\ jsQueue' = jsQueue \o
                 (IF cfg.onSlidingStart
                  THEN <<Call("onSlidingStart", Num(0), "pan", 0)>>
                  ELSE << >>)
            /\ Reactions(thumbValue, progress, isScrubbing', width,
                         cfg.hasIsScrubbing)
    /\ UNCHANGED <<cfg, cache, width, progress, bubbleOpacity, isTriggedHaptic,
                   wasAtEdge, jsNext>>

PanUpdate(x) ==
    /\ Ready
    /\ panState = "active"
    /\ updates < MaxUpdates
    /\ updates' = updates + 1
    /\ onTrack' = (onTrack /\ InTrack(x))
    /\ fingerX' = (IF cfg.hasPanDirectionValue THEN x ELSE fingerX)
    /\ IF Disabled
       THEN UNCHANGED <<panDirectionValue, prevX, bubbleOpacity, isScrubbing,
                        progress, isTriggedHaptic, wasAtEdge, jsQueue,
                        markLeftArr, thumbIndex, thumbValue>>
       ELSE \E a \in {onActiveSlider(x, "pan", updates + 1)} :
                /\ panDirectionValue' =
                     (IF cfg.hasPanDirectionValue
                      THEN (IF prevX - x > 0 THEN PanDirectionLEFT
                            ELSE PanDirectionRIGHT)
                      ELSE panDirectionValue)
                /\ prevX' = (IF cfg.hasPanDirectionValue THEN x ELSE prevX)
                /\ bubbleOpacity' = 1
                /\ isScrubbing' = a.isScrubbing
                /\ progress' = a.progress
                /\ isTriggedHaptic' = a.isTriggedHaptic
                /\ wasAtEdge' = AtEdge(x)
                /\ jsQueue' = jsQueue \o a.calls
                /\ Reactions(a.thumbValue, a.progress, a.isScrubbing, width,
                             cfg.hasIsScrubbing \/ ~cfg.disableTrackFollow)
    /\ UNCHANGED <<cfg, cache, width, panState, jsNext>>

PanEnd(x) ==
    /\ Ready
    /\ panState = "active"
    /\ panState' = "idle"
    /\ onTrack' = (onTrack /\ InTrack(x))
    /\ IF Disabled
       THEN UNCHANGED <<isScrubbing, panDirectionValue, bubbleOpacity,
                        progress, jsQueue, markLeftArr, thumbIndex, thumbValue>>
       ELSE \E r \in {Release(IF cfg.disableTrackFollow THEN xToProgress(x)
                                ELSE progress,
                                thumbValue, "pan", updates + 1)} :
                /\ isScrubbing' = (IF cfg.hasIsScrubbing THEN TRUE
                                   ELSE isScrubbing)
                /\ panDirectionValue' = (IF cfg.hasPanDirectionValue
                                         THEN PanDirectionEND
                                         ELSE panDirectionValue)
                /\ bubbleOpacity' = 0
                /\ progress' = r.progress
                /\ jsQueue' = jsQueue \o r.calls
                /\ Reactions(thumbValue, r.progress, isScrubbing', width,
                             cfg.hasIsScrubbing \/ cfg.disableTrackFollow
                                 \/ r.progress # progress)
    /\ UNCHANGED <<cfg, cache, width, updates, isTriggedHaptic, prevX, wasAtEdge,
                   fingerX, jsNext>>

Tap(x, isFinished) ==
    /\ Ready
    /\ panState = "idle"
    /\ onTrack' = InTrack(x)
    /\ LET tapped == IF cfg.onTap THEN <<Call("onTap", Num(0), "tap", 0)>>
                     ELSE << >>
       IN  IF TapDisabled
           THEN /\ jsQueue' = jsQueue \o tapped
                /\ UNCHANGED <<isScrubbing, bubbleOpacity, progress,
                               isTriggedHaptic, wasAtEdge, markLeftArr,
                               thumbIndex, thumbValue>>
           ELSE \E a \in {IF isFinished THEN onActiveSlider(x, "tap", 0)
                          ELSE [ isScrubbing |-> isScrubbing,
                                 thumbValue |-> thumbValue,
                                 progress |-> progress,
                                 isTriggedHaptic |-> isTriggedHaptic,
                                 calls |-> << >> ]} :
                \E r \in {Release(a.progress, a.thumbValue, "tap", 0)} :
                    /\ isScrubbing' = (IF cfg.hasIsScrubbing THEN TRUE
                                       ELSE a.isScrubbing)
                    /\ bubbleOpacity' = 0
                    /\ progress' = r.progress
                    /\ isTriggedHaptic' = a.isTriggedHaptic
                    /\ wasAtEdge' = (IF isFinished THEN AtEdge(x) ELSE wasAtEdge)
                    /\ jsQueue' = jsQueue \o tapped \o a.calls \o r.calls
                    /\ Reactions(a.thumbValue, r.progress, isScrubbing', width,
                                 cfg.hasIsScrubbing
                                     \/ (isFinished /\ ~cfg.disableTrackFollow)
                                     \/ r.progress # a.progress)
    /\ UNCHANGED <<cfg, cache, width, prevX, panDirectionValue, panState, updates,
                   fingerX, jsNext>>

\* the JS thread runs the oldest scheduled call
Deliver ==
    /\ jsQueue # << >>
    /\ jsQueue' = Tail(jsQueue)
    /\ jsNext' =
         (LET c == Head(jsQueue)
          IN  IF c.src = "pan" /\ c.cb # "onHapticFeedback"
              THEN (IF c.cb = "onSlidingComplete" THEN 0 ELSE c.k + 1)
              ELSE jsNext)
    /\ UNCHANGED <<cfg, cache, width, progress, thumbValue, bubbleOpacity,
                   markLeftArr, thumbIndex, isTriggedHaptic, prevX,
                   isScrubbing, panDirectionValue, panState, updates,
                   wasAtEdge, onTrack, fingerX>>

\* the application, which owns isScrubbing, clears it between gestures
ClearScrubbing ==
    /\ cfg.hasIsScrubbing
    /\ isScrubbing
    /\ panState = "idle"
    /\ isScrubbing' = FALSE
    /\ Reactions(thumbValue, progress, FALSE, width, TRUE)
    /\ UNCHANGED <<cfg, cache, width, progress, bubbleOpacity, isTriggedHaptic,
                   prevX, panDirectionValue, panState, updates, wasAtEdge,
                   onTrack, fingerX, jsQueue, jsNext>>

PanUpdateAny == \E x \in X : PanUpdate(x)

PanEndAny == \E x \in X : PanEnd(x)

\* a tap that did not finish is handled without reading its x
TapAny ==
    \/ \E x \in X : Tap(x, TRUE)
    \/ Tap(0, FALSE)

Next ==
    \/ onLayout
    \/ PanStart
    \/ PanUpdateAny
    \/ PanEndAny
    \/ TapAny
    \/ Deliver
    \/ ClearScrubbing

Spec == Init /\ [][Next]_vars

\* the application writes the cache value
SetCache(v) ==
    /\ cache' = Num(v)
    /\ UNCHANGED <<cfg, width, progress, thumbValue, bubbleOpacity,
                   markLeftArr, thumbIndex, isTriggedHaptic, prevX,
                   isScrubbing, panDirectionValue, panState, updates,
                   wasAtEdge, onTrack, fingerX, jsQueue, jsNext>>

SetCacheAny == \E v \in (0 - ValueBound) .. ValueBound : SetCache(v)

\* the cache overlay over every value range: layout and cache writes
InitCache == InitWith(CacheConfigs)

NextCache == onLayout \/ SetCacheAny

SpecCache == InitCache /\ [][NextCache]_vars

\* the degenerate configurations
InitDegenerate == InitWith(DegenerateConfigs)

SpecDegenerate == InitDegenerate /\ [][Next]_vars

\* the sliders that report the swipe direction
InitDirection == InitWith(DirectionConfigs)

SpecDirection == InitDirection /\ [][Next]_vars

-----------------------------------------------------------------------------
(* Vocabulary of the properties *)

\* v lies within [minimumValue, maximumValue]
InRange(v) == Leq(minimumValue, v) /\ Leq(v, maximumValue)

\* the calls a step schedules (gesture handlers only append to jsQueue)
Scheduled ==
    IF Len(jsQueue') > Len(jsQueue)
    THEN SubSeq(jsQueue', Len(jsQueue) + 1, Len(jsQueue'))
    ELSE << >>

\* the step schedules a call of callback cb
Schedules(cb) == \E i \in 1 .. Len(Scheduled) : Scheduled[i].cb = cb

\* the step is a release: the end of a pan or a tap that reports completion
IsRelease == Schedules("onSlidingComplete")

\* the argument of the onSlidingComplete call the step schedules
CompleteArg ==
    (CHOOSE c \in { Scheduled[i] : i \in 1 .. Len(Scheduled) } :
        c.cb = "onSlidingComplete").arg

\* the releasing gesture reported a position: a pan with at least one
\* update, or a finished tap (which runs onActiveSlider in the same step)
ReportedPosition ==
    IF panState = "active" THEN updates >= 1 ELSE Schedules("onValueChange")

\* the step is one of the gesture handlers
GestureStep == PanStart \/ PanUpdateAny \/ PanEndAny \/ TapAny

\* the calls of the pan callback pattern in q: start, change, complete
PanCalls(q) ==
    SelectSeq(q, LAMBDA c : c.src = "pan" /\ c.cb # "onHapticFeedback")

\* the position the pattern expects after call c
After(c) == IF c.cb = "onSlidingComplete" THEN 0 ELSE c.k + 1

\* progress value p after the rounding of a release
Rounded(p) == IF ReleaseRounds(p) THEN MathRound(p) ELSE p

\* the logical values of the step + 1 marks
StepValues ==
    { Add(minimumValue,
          Mul(StepFrac(i), Sub(maximumValue, minimumValue))) :
      i \in 0 .. cfg.step }

-----------------------------------------------------------------------------
(* C1: on an enabled slider, progress stays within                         *)
(* [minimumValue, maximumValue] after any sequence of gesture events;      *)
(* stated here for the gestures whose x all lie on the track, the least    *)
(* the claim asks for.                                                     *)
C1_ProgressInRange == (~cfg.disable /\ onTrack) => InRange(progress)

(* C2: once laid out, the translateX rendered for the thumb lies within    *)
(* [0, width - thumbWidth], with or without disableTrackFollow.            *)
C2_ThumbInTrack ==
    width # 0 =>
        /\ Leq(Num(0), animatedThumbStyle)
        /\ Leq(animatedThumbStyle, TrackLength(width))

(* C3: when every x of a gesture lies within [0, width], the values it     *)
(* passes to onValueChange and to onSlidingComplete lie within             *)
(* [minimumValue, maximumValue].                                           *)
C3_ValuesInRange ==
    [][ onTrack' =>
          \A i \in 1 .. Len(Scheduled) :
              Scheduled[i].cb \in {"onValueChange", "onSlidingComplete"}
                  => InRange(Scheduled[i].arg) ]_vars

(* C4: with step set, the end of a pan leaves in progress the logical      *)
(* value of a step mark, one of the step + 1 evenly spaced values between  *)
(* minimumValue and maximumValue.                                          *)
C4_SnapsToStepValue ==
    [][ (cfg.variant = "step" /\ cfg.step # 0 /\ ~cfg.disable
           /\ panState = "active" /\ panState' = "idle" /\ updates >= 1)
          => progress' \in StepValues ]_vars

(* C5: the value passed to onSlidingComplete equals the value progress     *)
(* holds after that release, for the end of a pan that reported a position *)
(* and for a finished tap, the positions lying on the track.               *)
C5_CompleteIsProgress ==
    [][ (IsRelease /\ onTrack' /\ ReportedPosition)
          => CompleteArg = progress' ]_vars

(* C6: for each pan on an enabled slider the callbacks reach the JS thread *)
(* in event order: onSlidingStart once (position 0), one onValueChange per *)
(* update (position i for the i-th update) carrying the value computed at  *)
(* that update, then onSlidingComplete once; calls leave the queue from    *)
(* the front only and enter it at the back only.                           *)
C6_Pattern ==
    ~cfg.disable =>
        LET P == PanCalls(jsQueue)
            pending == IF P = << >> THEN jsNext ELSE After(P[Len(P)])
        IN  /\ \A i \in 1 .. Len(P) :
                  /\ P[i].cb \in {"onSlidingStart", "onValueChange",
                                  "onSlidingComplete"}
                  /\ (P[i].k = 0) <=> (P[i].cb = "onSlidingStart")
                  /\ P[i].k = IF i = 1 THEN jsNext ELSE After(P[i - 1])
            /\ pending = IF panState = "active" THEN updates + 1 ELSE 0

C6_Step ==
    /\ \/ jsQueue # << >> /\ jsQueue' = Tail(jsQueue)
       \/ /\ Len(jsQueue') >= Len(jsQueue)
          /\ SubSeq(jsQueue', 1, Len(jsQueue)) = jsQueue
    /\ \A x \in X :
          (~cfg.disable /\ updates' = updates + 1 /\ PanUpdate(x)) =>
              /\ Len(jsQueue') > Len(jsQueue)
              /\ jsQueue'[Len(jsQueue')] =
                   Call("onValueChange",
                        shareValueToSeconds(
                            clamp(Num(x), Num(0), TrackLength(width))),
                        "pan", updates + 1)

C6_CallbackOrder == []C6_Pattern /\ [][C6_Step]_vars

\* the JS thread has run onSlidingStart and the first onValueChange of a pan
\* while the second onValueChange and onSlidingComplete are still waiting
C6_Witness ==
    /\ ~cfg.disable
    /\ jsNext = 2
    /\ Len(jsQueue) = 2
    /\ jsQueue[1].cb = "onValueChange" /\ jsQueue[1].k = 2
    /\ jsQueue[2].cb = "onSlidingComplete" /\ jsQueue[2].k = 3

(* C7: onActiveSlider schedules onHapticFeedback exactly when hapticMode   *)
(* is 'both', the callback is supplied, the event is at an edge and the    *)
(* previous onActiveSlider call (of this or an earlier gesture) was not at *)
(* an edge; no other step schedules it, and with another hapticMode it is  *)
(* never scheduled.                                                        *)
C7_Step ==
    LET haptics == { i \in 1 .. Len(Scheduled) :
                       Scheduled[i].cb = "onHapticFeedback" }
        arrives == /\ Schedules("onValueChange")
                   /\ wasAtEdge' /\ ~wasAtEdge
                   /\ cfg.hapticMode = "both" /\ cfg.onHapticFeedback
    IN  Cardinality(haptics) = IF arrives THEN 1 ELSE 0

C8_DisabledIsInert ==
    [][ (cfg.disable /\ GestureStep) =>
          /\ UNCHANGED <<progress, thumbValue, isScrubbing,
                         panDirectionValue, bubbleOpacity>>
          /\ \A i \in 1 .. Len(Scheduled) :
                Scheduled[i].cb \notin {"onSlidingStart", "onValueChange",
                                        "onSlidingComplete",
                                        "onHapticFeedback"} ]_vars

\* a disabled slider in the middle of a pan that has reported a position
C8_Witness == cfg.disable /\ panState = "active" /\ updates >= 1

\* the step is a finished tap at x; what the handler leaves in onTrack,
\* wasAtEdge and thumbValue rules out most positions before the whole
\* handler is evaluated
TapAt(x) ==
    /\ onTrack' = InTrack(x)
    /\ wasAtEdge' = AtEdge(x)
    /\ thumbValue' = ReactThumbValue(clamp(Num(x), Num(0), TrackLength(width)),
                                     progress', isScrubbing', width,
                                     cfg.hasIsScrubbing
                                         \/ ~cfg.disableTrackFollow
                                         \/ progress' # progress)
    /\ Tap(x, TRUE)

(* C9: with disableTapEvent a tap changes neither progress nor thumbValue  *)
(* and schedules neither onValueChange nor onSlidingComplete, while a pan  *)
(* update at x still reports through onValueChange and, when the track     *)
(* follows, writes xToProgress(x); without disableTapEvent a finished tap  *)
(* at x on an enabled slider reports the value for x through onValueChange *)
(* and onSlidingComplete and, when the track follows, leaves progress at   *)
(* xToProgress(x) as rounded by the release.                               *)
C9_Step ==
    /\ (cfg.disableTapEvent /\ TapAny) =>
          /\ UNCHANGED <<progress, thumbValue>>
          /\ ~Schedules("onValueChange")
          /\ ~Schedules("onSlidingComplete")
    /\ (cfg.disableTapEvent /\ ~cfg.disable /\ updates' = updates + 1) =>
          \A x \in X :
              PanUpdate(x) =>
                  /\ Schedules("onValueChange")
                  /\ ~cfg.disableTrackFollow => progress' = xToProgress(x)
    /\ (~cfg.disableTapEvent /\ ~cfg.disable /\ panState = "idle"
          /\ panState' = "idle" /\ Len(jsQueue') > Len(jsQueue)) =>
          \A x \in X :
              TapAt(x) =>
                  /\ \E i \in 1 .. Len(Scheduled) :
                        Scheduled[i] =
                            Call("onValueChange",
                                 shareValueToSeconds(
                                     clamp(Num(x), Num(0),
                                           TrackLength(width))),
                                 "tap", 0)
                  /\ Schedules("onSlidingComplete")
                  /\ ~cfg.disableTrackFollow =>
                        progress' = Rounded(xToProgress(x))

C10_SnapToInteger ==
    [][ (cfg.variant = "plain" /\ IsRelease /\ onTrack' /\ ReportedPosition)
          => IF cfg.snapToInteger
             THEN /\ IsWhole(progress')
                  /\ CompleteArg = progress'
                  /\ (panState = "active" /\ ~cfg.disableTrackFollow)
                        => progress' = MathRound(progress)
             ELSE (panState = "active" /\ ~cfg.disableTrackFollow)
                        => progress' = progress ]_vars

\* the value the track gives position x: x / (width - thumbWidth) of the
\* total value
ValueAt(x) == Mul(Div(Num(x), TrackLength(width)), sliderTotalValue)

(* C11: with disableTrackFollow on an enabled slider, the start of a pan    *)
(* and every update leave progress as it was, an update at x moves         *)
(* thumbValue to the clamped x and reports the value for it through        *)
(* onValueChange, and the end of the pan at x (a pan that reported a       *)
(* position, its positions on the track) leaves in progress the value of   *)
(* position x, as rounded by the release.                                  *)
C11_Step ==
    (cfg.disableTrackFollow /\ ~cfg.disable) =>
        /\ (panState = "idle" /\ panState' = "active") => progress' = progress
        /\ (updates' = updates + 1) =>
              \A x \in X :
                  PanUpdate(x) =>
                      /\ progress' = progress
                      /\ thumbValue' = clamp(Num(x), Num(0), TrackLength(width))
                      /\ Len(Scheduled) = 1
                      /\ Scheduled[1].cb = "onValueChange"
                      /\ Scheduled[1].arg = shareValueToSeconds(thumbValue')
        /\ (panState = "active" /\ panState' = "idle" /\ updates >= 1
               /\ onTrack') =>
              \A x \in X :
                  PanEnd(x) => progress' = Rounded(ValueAt(x))

C11_TrackFollowDisabled == [][C11_Step]_vars

(* C12: on an enabled slider given panDirectionValue, the start of a pan   *)
(* leaves START in it, an update leaves LEFT exactly when the x of the     *)
(* event is smaller than the x of the previous event of the pan (the start *)
(* for the first update) and RIGHT when it is larger, both positions lying *)
(* on the track, and the end of the pan leaves END.                        *)
C12_Step ==
    (cfg.hasPanDirectionValue /\ ~cfg.disable) =>
        /\ (panState = "idle" /\ panState' = "active") =>
              panDirectionValue' = PanDirectionSTART
        /\ (updates' = updates + 1 /\ InTrack(fingerX) /\ InTrack(fingerX')) =>
              /\ (panDirectionValue' = PanDirectionLEFT) <=> (fingerX' < fingerX)
              /\ (fingerX' > fingerX) => panDirectionValue' = PanDirectionRIGHT
        /\ (panState = "active" /\ panState' = "idle") =>
              panDirectionValue' = PanDirectionEND

C12_PanDirection == [][C12_Step]_vars

(* C13: once the view is laid out, for every cache value within            *)
(* [minimumValue, maximumValue] the width of the cache overlay is a finite *)
(* number within [0, width], whatever the pair minimumValue, maximumValue. *)
C13_CacheInTrack ==
    (width # 0 /\ InRange(cache)) =>
        /\ IsFinite(animatedCacheXStyle)
        /\ Leq(Num(0), animatedCacheXStyle)
        /\ Leq(animatedCacheXStyle, Num(width))

(* C14: on an enabled slider whose minimumValue equals maximumValue, whose *)
(* minimumValue + maximumValue is 0 or whose track is as wide as the       *)
(* thumb, progress, the thumb offset and every value handed to             *)
(* onValueChange and onSlidingComplete are finite numbers.                 *)
C14_DegenerateIsDefined ==
    (width # 0 /\ ~cfg.disable
       /\ (cfg.minimumValue = cfg.maximumValue
              \/ cfg.minimumValue + cfg.maximumValue = 0
              \/ cfg.layoutWidth = cfg.thumbWidth)) =>
        /\ IsFinite(progress)
        /\ IsFinite(animatedThumbStyle)
        /\ \A i \in 1 .. Len(jsQueue) :
              jsQueue[i].cb \in {"onValueChange", "onSlidingComplete"}
                  => IsFinite(jsQueue[i].arg)

=============================================================================
